---- MODULE Spec2Model ----
(***************************************************************************)
(* Transcript pipeline of proj-yt-dl-video-audio-transcript.                *)
(*                                                                         *)
(*   SpecSel  print_and_select_default_transcript (get_transcript_list.py) *)
(*            over any metadata rows; SpecListing over the rows that       *)
(*            list_transcript_metadata makes                               *)
(*   SpecDl   download_transcript / perform_transcript_download            *)
(*            (trans_core.py)                                              *)
(*   SpecRf   RefactoredTranscriptDownloader.download_transcript           *)
(*            (refactored_transcript_downloader.py)                        *)
(*   SpecPipe either of the two download pipelines                         *)
(*   SpecDl2  two interleaved calls of trans_core.download_transcript      *)
(*   SpecPreview     the LLM suitability line of print_transcript_preview  *)
(*   SpecCategorize  MetadataCollector._categorize_quality                 *)
(*   SpecClean       TranscriptProcessor.clean_text                        *)
(*   SpecChapters    TranscriptProcessor.detect_chapters                   *)
(*   SpecMarkdown    RealDataTransformer.generate_markdown                 *)
(*   SpecExport      MetadataExporter.export_metadata                      *)
(*   SpecVideo       download_video_with_audio under monitor_download      *)
(*   SpecContexts    two UserContexts and their accessors                  *)
(*   SpecCli         run of the original and of the refactored CLI         *)
(***************************************************************************)
EXTENDS Integers, Sequences, FiniteSets, TLC

VARIABLES
    rows,                \* what list_transcript_metadata yields on success
    list_fails,          \* get_transcript_list raises inside list_transcript_metadata
    preferred_language,  \* argument of print_and_select_default_transcript
    config,              \* APP_CONFIG as load_config() sees it
    first_call,          \* first selector call: its result and the language it looked for
    last_call,           \* latest selector call: its result and the language it looked for
    first_config,        \* the configuration the first selector call loaded
    dl,                  \* one invocation of trans_core.download_transcript
    fs,                  \* files on disk
    rf,                  \* one invocation of RefactoredTranscriptDownloader.download_transcript
    dl2,                 \* a second invocation of trans_core.download_transcript
    inp,                 \* the arguments of a call of one of the other functions
    out                  \* that call: where it is and what it gave

vars == <<rows, list_fails, preferred_language, config, first_call,
          last_call, first_config, dl, fs, rf, dl2, inp, out>>

----------------------------------------------------------------------------
(* Bounds *)

MaxTracks == 3

(* Values *)

\* no pure function has been called
NoInput == [kind |-> "none"]
NoOutput == [kind |-> "none"]

NoLang == "none"
Langs == {"en", "en-GB", "es", "fr"}
PrefLangs == {NoLang, "es", "fr"}
\* variant: only the bare code counts as English
EnglishCodes_OnlyEn == {"en"}

EnglishCodes == {"en", "en-US", "en-GB"}

Row == [language_code : Langs, is_generated : BOOLEAN, is_default : BOOLEAN]

RECURSIVE SeqsUpTo(_, _)
SeqsUpTo(S, n) ==
    IF n = 0 THEN {<<>>}
    ELSE LET shorter == SeqsUpTo(S, n - 1)
         IN  shorter \cup {Append(s, x) : s \in {t \in shorter : Len(t) = n - 1}, x \in S}

\* load_config() either raises or returns a dictionary whose
\* transcripts.preferred_languages list may be absent (empty here).
Configs ==
    { [ok |-> FALSE, preferred_languages |-> <<>>],
      [ok |-> TRUE,  preferred_languages |-> <<>>],
      [ok |-> TRUE,  preferred_languages |-> <<"fr">>],
      [ok |-> TRUE,  preferred_languages |-> <<"es", "en">>] }

----------------------------------------------------------------------------
(* get_transcript_list.py *)

\* is_default as list_transcript_metadata computes it for one transcript
DefaultPolicy(is_generated, language_code) ==
    (~is_generated) \/ (is_generated /\ language_code \in EnglishCodes)

\* list_transcript_metadata: one row per transcript of the listing, in order
ListTranscriptMetadata(transcript_list) ==
    [i \in 1..Len(transcript_list) |->
        [language_code |-> transcript_list[i].language_code,
         is_generated  |-> transcript_list[i].is_generated,
         is_default    |-> DefaultPolicy(transcript_list[i].is_generated,
                                         transcript_list[i].language_code)]]

\* variant: the configured language overrides the argument
EffectivePreferred_ConfigFirst(pref, cfg) ==
    IF cfg.ok /\ Len(cfg.preferred_languages) > 0
    THEN cfg.preferred_languages[1]
    ELSE pref

\* the config fallback at the head of print_and_select_default_transcript
EffectivePreferred(pref, cfg) ==
    IF pref # NoLang THEN pref
    ELSE IF cfg.ok /\ Len(cfg.preferred_languages) > 0
         THEN cfg.preferred_languages[1]
         ELSE NoLang

\* positions of the manual rows, in order (manual_transcripts)
ManualTranscripts(rs) ==
    SelectSeq([i \in 1..Len(rs) |-> i], LAMBDA i : ~rs[i].is_generated)

\* positions of the auto-generated rows, in order (auto_generated_transcripts)
AutoGeneratedTranscripts(rs) ==
    SelectSeq([i \in 1..Len(rs) |-> i], LAMBDA i : rs[i].is_generated)

\* the loop keeps the last row flagged is_default; 0 stands for None
ExplicitDefault(rs) ==
    LET flagged == {i \in 1..Len(rs) : rs[i].is_default}
    IN  IF flagged = {} THEN 0 ELSE CHOOSE i \in flagged : \A j \in flagged : j <= i

\* next((t for t in positions if language_code == lang), None)
FirstWithLanguage(rs, positions, langs) ==
    LET hits == SelectSeq(positions, LAMBDA i : rs[i].language_code \in langs)
    IN  IF hits = <<>> THEN 0 ELSE hits[1]

\* variant: the language preference is tried before the explicit default
SelectDefault_PrefFirst(rs, pref) ==
    IF rs = <<>> THEN 0
    ELSE
      LET manual == ManualTranscripts(rs)
          auto   == AutoGeneratedTranscripts(rs)
          dflt   == ExplicitDefault(rs)
          byPref == IF pref # NoLang
                    THEN FirstWithLanguage(rs, manual \o auto, {pref})
                    ELSE 0
          english == FirstWithLanguage(rs, auto, EnglishCodes)
      IN  IF byPref # 0 THEN byPref
          ELSE IF dflt # 0 THEN dflt
          ELSE IF manual # <<>> THEN manual[1]
          ELSE IF auto # <<>> THEN (IF english # 0 THEN english ELSE auto[1])
          ELSE 0

\* variant: a manual track is taken before the language preference is tried
SelectDefault_ManualFirst(rs, pref) ==
    IF rs = <<>> THEN 0
    ELSE
      LET manual == ManualTranscripts(rs)
          auto   == AutoGeneratedTranscripts(rs)
          dflt   == ExplicitDefault(rs)
          byPref == IF pref # NoLang
                    THEN FirstWithLanguage(rs, manual \o auto, {pref})
                    ELSE 0
          english == FirstWithLanguage(rs, auto, EnglishCodes)
      IN  IF dflt # 0 THEN dflt
          ELSE IF manual # <<>> THEN manual[1]
          ELSE IF byPref # 0 THEN byPref
          ELSE IF auto # <<>> THEN (IF english # 0 THEN english ELSE auto[1])
          ELSE 0

\* variant: the last manual track is taken instead of the first
SelectDefault_LastManual(rs, pref) ==
    IF rs = <<>> THEN 0
    ELSE
      LET manual == ManualTranscripts(rs)
          auto   == AutoGeneratedTranscripts(rs)
          dflt   == ExplicitDefault(rs)
          byPref == IF pref # NoLang
                    THEN FirstWithLanguage(rs, manual \o auto, {pref})
                    ELSE 0
          english == FirstWithLanguage(rs, auto, EnglishCodes)
      IN  IF dflt # 0 THEN dflt
          ELSE IF byPref # 0 THEN byPref
          ELSE IF manual # <<>> THEN manual[Len(manual)]
          ELSE IF auto # <<>> THEN (IF english # 0 THEN english ELSE auto[1])
          ELSE 0

\* variant: without an English track the auto-generated fallback gives None
SelectDefault_EnglishOnly(rs, pref) ==
    IF rs = <<>> THEN 0
    ELSE
      LET manual == ManualTranscripts(rs)
          auto   == AutoGeneratedTranscripts(rs)
          dflt   == ExplicitDefault(rs)
          byPref == IF pref # NoLang
                    THEN FirstWithLanguage(rs, manual \o auto, {pref})
                    ELSE 0
          english == FirstWithLanguage(rs, auto, EnglishCodes)
      IN  IF dflt # 0 THEN dflt
          ELSE IF byPref # 0 THEN byPref
          ELSE IF manual # <<>> THEN manual[1]
          ELSE english

\* the selection of lines 70-136 over the metadata rows; the result is the
\* position of the returned row in rs, 0 for None
SelectDefault(rs, pref) ==
    IF rs = <<>> THEN 0
    ELSE
      LET manual == ManualTranscripts(rs)
          auto   == AutoGeneratedTranscripts(rs)
          dflt   == ExplicitDefault(rs)
          byPref == IF pref # NoLang
                    THEN FirstWithLanguage(rs, manual \o auto, {pref})
                    ELSE 0
          english == FirstWithLanguage(rs, auto, EnglishCodes)
      IN  IF dflt # 0 THEN dflt
          ELSE IF byPref # 0 THEN byPref
          ELSE IF manual # <<>> THEN manual[1]
          ELSE IF auto # <<>> THEN (IF english # 0 THEN english ELSE auto[1])
          ELSE 0

\* variant: a failed listing is not caught and the call raises
PrintAndSelectDefaultTranscript_Raise(rs, fails, pref, cfg) ==
    IF fails THEN [raised |-> TRUE, track |-> 0]
    ELSE [raised |-> FALSE,
          track  |-> SelectDefault(rs, EffectivePreferred(pref, cfg))]

\* print_and_select_default_transcript: every exception is caught, so the
\* call always returns; track is a position in the rows or 0 for None
PrintAndSelectDefaultTranscript(rs, fails, pref, cfg) ==
    [raised |-> FALSE,
     track  |-> SelectDefault(IF fails THEN <<>> ELSE rs, EffectivePreferred(pref, cfg))]

NotCalled == [result |-> [raised |-> FALSE, track |-> -1], preferred_language |-> NoLang]

----------------------------------------------------------------------------
(* trans_core.py: values *)

MaxDlTracks == 2

\* regex of extract_video_id: exactly eleven id characters are captured
IdLength == 11

NoVideo == "none"
NoTemplate == <<>>
NoFormats == <<"none">>
DefaultFormats == <<"clean", "timestamped", "structured">>
DefaultTemplate == <<"downloads/transcripts/transcript">>
\* get_user_download_path(session_uuid, video_uuid, "transcripts") / "transcript"
UserTemplate(video) == <<"downloads/session/" \o video \o "/transcripts/transcript">>

\* A URL is described by what the two checks look at: which of the patterns
\* of validate_transcript_url it contains (compared in lower case), whether
\* the host part is written in upper case (the regular expressions of
\* extract_video_id are case-sensitive), and how many id characters follow.
YoutubePatterns == {"youtube.com/watch", "youtu.be/", "youtube.com/embed/", "youtube.com/v/"}

Urls ==
    { [pattern |-> "youtube.com/watch",  host_upper |-> FALSE, id_chars |-> 11, video |-> "A"],
      [pattern |-> "youtu.be/",          host_upper |-> FALSE, id_chars |-> 12, video |-> "A"],
      [pattern |-> "youtube.com/watch",  host_upper |-> FALSE, id_chars |-> 10, video |-> "A"],
      [pattern |-> "youtube.com/embed/", host_upper |-> TRUE,  id_chars |-> 11, video |-> "A"],
      [pattern |-> "invalid-url.com",    host_upper |-> FALSE, id_chars |-> 11, video |-> "A"] }

DlLangs == {"en", "es"}
LanguageArgs == {NoLang, "en", "fr"}
Transcript == [language_code : DlLangs, is_generated : BOOLEAN]
TemplateArgs == {NoTemplate, <<"out">>, <<"out", "txt">>, <<"out", "srt">>}
FormatArgs == {NoFormats, <<"clean">>, <<"structured", "clean">>}

\* validate_transcript_url
ValidateTranscriptUrl(url) == url.pattern \in YoutubePatterns

\* variant: the id is not required to have eleven characters
ExtractVideoId_AnyLength(url) ==
    IF url.pattern \in YoutubePatterns /\ ~url.host_upper
    THEN url.video ELSE NoVideo

\* extract_video_id
ExtractVideoId(url) ==
    IF url.pattern \in YoutubePatterns /\ ~url.host_upper /\ url.id_chars >= IdLength
    THEN url.video ELSE NoVideo

\* A template is the sequence of its dot-separated parts.
\* base_name of perform_transcript_download: a .txt or .json extension is cut
TranscriptBaseName(template) ==
    IF Len(template) > 1 /\ template[Len(template)] \in {"txt", "json"}
    THEN SubSeq(template, 1, Len(template) - 1)
    ELSE template

\* filename of perform_transcript_download for one format
TranscriptFileName(template, format_name) ==
    [base   |-> TranscriptBaseName(template),
     suffix |-> IF format_name = "structured" THEN "_structured.json"
                ELSE IF format_name = "clean" THEN "_clean.txt"
                ELSE "_timestamped.txt"]

\* base_name of the metadata export in download_transcript: rsplit('.', 1)[0]
MetadataBaseName(template) ==
    IF Len(template) > 1 THEN SubSeq(template, 1, Len(template) - 1) ELSE template

MetadataSuffixes == <<"_metadata.json", "_metadata.csv", "_report.md">>

\* open(filename, "w") followed by a write: the file is created or replaced
WriteFile(files, name, content) ==
    {f \in files : f.name # name} \cup {[name |-> name, content |-> content]}

\* open(filename, "r") followed by a read; NoVideo stands for a missing file
ReadFile(files, name) ==
    IF \E f \in files : f.name = name
    THEN (CHOOSE f \in files : f.name = name).content
    ELSE NoVideo

\* process_transcript_data: one entry per requested format, in request order
ProcessTranscriptData(formats) == formats

dlIdle ==
    [pc |-> "idle", url |-> CHOOSE u \in Urls : TRUE, language_code |-> NoLang,
     output_template |-> NoTemplate, formats |-> NoFormats, include_metadata |-> FALSE,
     tracks |-> <<>>, video_id |-> NoVideo, selected |-> -1, video_metadata |-> FALSE,
     pending |-> <<>>, saved_files |-> {}, error |-> "", cause |-> "",
     n_list |-> 0, n_track_fetch |-> 0, n_direct_fetch |-> 0, n_metadata |-> 0,
     n_mkdir |-> 0, list_failed |-> FALSE, track_fetch_failed |-> FALSE,
     direct_fetch_failed |-> FALSE, metadata_failed |-> FALSE, export_failed |-> FALSE,
     user_context |-> FALSE, exported_from |-> NoVideo]

\* the state of a call download_transcript(url, language_code, output_template,
\* formats=formats, include_metadata=include_metadata) on entry
DlEntry(url, language_code, output_template, formats, include_metadata, tracks) ==
    [dlIdle EXCEPT !.pc = "validate", !.url = url, !.language_code = language_code,
                   !.output_template = output_template, !.formats = formats,
                   !.include_metadata = include_metadata, !.tracks = tracks]

Raise(c, error, cause) == [c EXCEPT !.pc = "raised", !.error = error, !.cause = cause]

----------------------------------------------------------------------------
(* trans_core.py: the steps of download_transcript; each operator gives the *)
(* states the call can be in after the step                                *)

\* lines 274-278
AfterValidate(c) ==
    IF ~ValidateTranscriptUrl(c.url)
    THEN {Raise(c, "ValueError", "url")}
    ELSE {[c EXCEPT !.pc = "extract"]}

\* lines 280-287
AfterExtract(c) ==
    LET id == ExtractVideoId(c.url)
    IN  IF id = NoVideo
        THEN {Raise(c, "ValueError", "video_id")}
        ELSE {[c EXCEPT !.pc = "template", !.video_id = id]}

\* get_transcript_output_template(None, user_context=..., video_url=url): the
\* directory of the user's session and video when a user context is given,
\* downloads/transcripts otherwise, and "transcript" as the file name
GetTranscriptOutputTemplate(c) ==
    IF c.user_context THEN UserTemplate(c.url.video) ELSE DefaultTemplate

\* lines 289-304; get_transcript_output_template ends with ensure_directory,
\* whose mkdir may raise
AfterTemplate(c) ==
    LET fmts == IF c.formats = NoFormats THEN DefaultFormats ELSE c.formats
        next == IF c.language_code = NoLang THEN "select" ELSE "metadata"
    IN  IF c.output_template = NoTemplate
        THEN { [c EXCEPT !.pc = next, !.formats = fmts, !.n_mkdir = @ + 1,
                         !.output_template = GetTranscriptOutputTemplate(c)],
               Raise([c EXCEPT !.n_mkdir = @ + 1], "OSError", "mkdir") }
        ELSE { [c EXCEPT !.pc = next, !.formats = fmts] }

\* variant: with no track selected the download goes on in English
AfterSelect_DefaultEnglish(c, cfg) ==
    UNION { LET r == PrintAndSelectDefaultTranscript(ListTranscriptMetadata(c.tracks),
                                                     fails, NoLang, cfg)
                d == [c EXCEPT !.n_list = @ + 1, !.selected = r.track,
                               !.list_failed = fails]
            IN  IF r.track = 0
                THEN {[d EXCEPT !.pc = "metadata", !.language_code = "en"]}
                ELSE {[d EXCEPT !.pc = "metadata",
                                !.language_code = c.tracks[r.track].language_code]}
          : fails \in BOOLEAN }

\* lines 306-313: print_and_select_default_transcript(video_id) lists the
\* transcripts once; the listing may fail
AfterSelect(c, cfg) ==
    UNION { LET r == PrintAndSelectDefaultTranscript(ListTranscriptMetadata(c.tracks),
                                                     fails, NoLang, cfg)
                d == [c EXCEPT !.n_list = @ + 1, !.selected = r.track,
                               !.list_failed = fails]
            IN  IF r.track = 0
                THEN {Raise(d, "RuntimeError: No suitable transcript found for this video",
                            "select")}
                ELSE {[d EXCEPT !.pc = "metadata",
                                !.language_code = c.tracks[r.track].language_code]}
          : fails \in BOOLEAN }

\* variant: a failed metadata extraction is not caught
AfterMetadata_Propagate(c) ==
    IF ~c.include_metadata
    THEN {[c EXCEPT !.pc = "list"]}
    ELSE { [c EXCEPT !.pc = "list", !.n_metadata = @ + 1, !.video_metadata = TRUE],
           Raise([c EXCEPT !.n_metadata = @ + 1, !.metadata_failed = TRUE],
                 "RuntimeError: Transcript download failed", "metadata") }

\* lines 315-326: ydl.extract_info, any exception is logged and dropped
AfterMetadata(c) ==
    IF ~c.include_metadata
    THEN {[c EXCEPT !.pc = "list"]}
    ELSE { [c EXCEPT !.pc = "list", !.n_metadata = @ + 1, !.video_metadata = TRUE],
           [c EXCEPT !.pc = "list", !.n_metadata = @ + 1, !.metadata_failed = TRUE] }

DownloadFailed == "RuntimeError: Transcript download failed"

\* lines 168-177 up to the fetch: get_transcript_list, then the search for
\* the language
AfterList(c) ==
    LET d == [c EXCEPT !.n_list = @ + 1]
        found == \E i \in 1..Len(c.tracks) : c.tracks[i].language_code = c.language_code
    IN  { Raise([d EXCEPT !.list_failed = TRUE], DownloadFailed, "list"),
          [d EXCEPT !.pc = IF found THEN "fetch" ELSE "direct"] }

\* line 175: transcript.fetch() of the first transcript in the language; an
\* empty result falls through to the direct fetch, an exception propagates
AfterFetch(c) ==
    LET d == [c EXCEPT !.n_track_fetch = @ + 1]
    IN  { [d EXCEPT !.pc = "process"],
          [d EXCEPT !.pc = "direct"],
          Raise([d EXCEPT !.track_fetch_failed = TRUE], DownloadFailed, "fetch") }

\* lines 179-189: YouTubeTranscriptApi.fetch(video_id, languages=[language_code])
AfterDirect(c) ==
    LET d == [c EXCEPT !.n_direct_fetch = @ + 1]
    IN  { [d EXCEPT !.pc = "process"],
          Raise(d, DownloadFailed, "empty"),
          Raise([d EXCEPT !.direct_fetch_failed = TRUE], DownloadFailed, "direct") }

\* lines 191-199
AfterProcess(c) ==
    { [c EXCEPT !.pc = "write", !.pending = ProcessTranscriptData(c.formats)],
      Raise(c, DownloadFailed, "process") }

\* lines 204-230, one format: the file is written or the write raises
AfterWrite(c, files) ==
    IF c.pending = <<>>
    THEN {[c |-> [c EXCEPT !.pc = "export"], fs |-> files]}
    ELSE LET format_name == Head(c.pending)
             filename == TranscriptFileName(c.output_template, format_name)
         IN  { [c  |-> [c EXCEPT !.pending = Tail(@),
                                 !.saved_files = @ \cup {format_name}],
                fs |-> WriteFile(files, filename, c.video_id)],
               [c  |-> Raise(c, DownloadFailed, "write"), fs |-> files] }

\* lines 335-365: the metadata export; whatever fails is logged and dropped.
\* The structured file is read back from disk and the metadata found in it
\* is exported. Each of the three export_metadata calls may or may not write
\* its file.
AfterExport(c, files) ==
    IF ~(c.include_metadata /\ "structured" \in c.saved_files)
    THEN {[c |-> [c EXCEPT !.pc = "returned"], fs |-> files]}
    ELSE LET base == MetadataBaseName(c.output_template)
             structured_data ==
                 ReadFile(files, TranscriptFileName(c.output_template, "structured"))
             Written(k) == {[name |-> [base |-> base, suffix |-> MetadataSuffixes[i]],
                             content |-> structured_data] : i \in 1..k}
         IN  IF structured_data = NoVideo
             THEN {[c |-> [c EXCEPT !.pc = "returned", !.export_failed = TRUE],
                    fs |-> files]}
             ELSE { [c  |-> [c EXCEPT !.pc = "returned", !.export_failed = (k < 3),
                                      !.exported_from = structured_data],
                     fs |-> {f \in files : f.name \notin {w.name : w \in Written(k)}}
                              \cup Written(k)]
                    : k \in 0..3 }

----------------------------------------------------------------------------
(* refactored_transcript_downloader.py *)

RfLanguageArgs == {"en", "fr"}
RfFormatArgs == {NoFormats, <<"clean">>, <<"structured", "clean">>}
RfOutputPath == <<"transcript">>

rfIdle ==
    [pc |-> "idle", language_code |-> "en", formats |-> NoFormats,
     include_metadata |-> FALSE, metadata_collector |-> FALSE, file_manager |-> FALSE,
     tracks |-> <<>>, pending |-> <<>>, saved |-> {}, success |-> FALSE, error |-> "",
     file_paths |-> {}, metadata |-> FALSE,
     n_list |-> 0, n_track_fetch |-> 0, n_direct_fetch |-> 0,
     list_failed |-> FALSE, track_fetch_failed |-> FALSE, direct_fetch_failed |-> FALSE]

\* a downloader built with or without metadata collector and file manager,
\* on entry of download_transcript(video_id, language_code, formats=formats,
\* include_metadata=include_metadata); lines 112-113 set the default formats
RfEntry(language_code, formats, include_metadata, metadata_collector, file_manager, tracks) ==
    [rfIdle EXCEPT !.pc = "list", !.language_code = language_code,
                   !.formats = IF formats = NoFormats THEN DefaultFormats ELSE formats,
                   !.include_metadata = include_metadata,
                   !.metadata_collector = metadata_collector,
                   !.file_manager = file_manager, !.tracks = tracks]

\* lines 145-153: the result of a failed download
RfFailure(c, error) ==
    [c EXCEPT !.pc = "returned", !.success = FALSE, !.error = error,
              !.file_paths = {}, !.metadata = FALSE]

\* f"{output_path}_{format_name}.txt"
RfFileName(output_path, format_name) ==
    [base   |-> output_path,
     suffix |-> IF format_name = "structured" THEN "_structured.txt"
                ELSE IF format_name = "clean" THEN "_clean.txt"
                ELSE "_timestamped.txt"]

\* lines 157-165: api.list_transcripts, then the search for the language; a
\* failure is caught at line 169
AfterRfList(c) ==
    LET d == [c EXCEPT !.n_list = @ + 1]
        found == \E i \in 1..Len(c.tracks) : c.tracks[i].language_code = c.language_code
    IN  { [d EXCEPT !.pc = "fallback", !.list_failed = TRUE],
          [d EXCEPT !.pc = IF found THEN "fetch" ELSE "direct"] }

\* line 164: transcript.fetch(); a failure is caught at line 169
AfterRfFetch(c) ==
    LET d == [c EXCEPT !.n_track_fetch = @ + 1]
    IN  { [d EXCEPT !.pc = "process"],
          [d EXCEPT !.pc = "fallback", !.track_fetch_failed = TRUE] }

\* line 167: api.fetch_transcript inside the try; a failure is caught at
\* line 169 like any other
AfterRfDirect(c) ==
    LET d == [c EXCEPT !.n_direct_fetch = @ + 1]
    IN  { [d EXCEPT !.pc = "process"],
          [d EXCEPT !.pc = "fallback", !.direct_fetch_failed = TRUE] }

\* line 171: api.fetch_transcript in the except handler; a failure leaves
\* _fetch_transcript_data and is caught at line 145
AfterRfFallback(c) ==
    LET d == [c EXCEPT !.n_direct_fetch = @ + 1]
    IN  { [d EXCEPT !.pc = "process"],
          RfFailure([d EXCEPT !.direct_fetch_failed = TRUE], "fetch") }

\* line 122: processor.process_transcript
AfterRfProcess(c) ==
    { [c EXCEPT !.pc = IF c.file_manager THEN "mkdir" ELSE "metadata",
                !.pending = IF c.file_manager THEN c.formats ELSE <<>>],
      RfFailure(c, "process") }

\* line 183: file_manager.ensure_directory
AfterRfEnsureDirectory(c) ==
    { [c EXCEPT !.pc = "save"], RfFailure(c, "mkdir") }

\* lines 186-190, one format: file_manager.write_file
AfterRfSave(c, files) ==
    IF c.pending = <<>>
    THEN {[c |-> [c EXCEPT !.pc = "metadata", !.file_paths = c.saved], fs |-> files]}
    ELSE LET format_name == Head(c.pending)
         IN  { [c  |-> [c EXCEPT !.pending = Tail(@), !.saved = @ \cup {format_name}],
                fs |-> WriteFile(files, RfFileName(RfOutputPath, format_name), "A")],
               [c  |-> RfFailure(c, "write"), fs |-> files] }

\* lines 127-143: metadata_collector.collect_metadata, then the result
AfterRfCollect(c) ==
    IF c.include_metadata /\ c.metadata_collector
    THEN { [c EXCEPT !.pc = "returned", !.success = TRUE, !.metadata = TRUE],
           RfFailure(c, "metadata") }
    ELSE { [c EXCEPT !.pc = "returned", !.success = TRUE] }

InitRf ==
    /\ rows = <<>> /\ list_fails = FALSE /\ preferred_language = NoLang
    /\ config = [ok |-> TRUE, preferred_languages |-> <<>>]
    /\ first_call = NotCalled /\ last_call = NotCalled /\ first_config = config
    /\ dl = dlIdle
    /\ fs = {}
    /\ rf \in { RfEntry(l, f, m, mc, fm, tr) :
                  l \in RfLanguageArgs, f \in RfFormatArgs, m \in BOOLEAN,
                  mc \in BOOLEAN, fm \in BOOLEAN,
                  tr \in SeqsUpTo(Transcript, MaxDlTracks) }
    /\ dl2 = dlIdle /\ inp = NoInput /\ out = NoOutput

RfFrame == UNCHANGED <<rows, list_fails, preferred_language, config, first_call,
                       last_call, first_config, dl, dl2, inp, out>>

RfList     == rf.pc = "list"     /\ rf' \in AfterRfList(rf)     /\ UNCHANGED fs /\ RfFrame
RfFetch    == rf.pc = "fetch"    /\ rf' \in AfterRfFetch(rf)    /\ UNCHANGED fs /\ RfFrame
RfDirect   == rf.pc = "direct"   /\ rf' \in AfterRfDirect(rf)   /\ UNCHANGED fs /\ RfFrame
RfFallback == rf.pc = "fallback" /\ rf' \in AfterRfFallback(rf) /\ UNCHANGED fs /\ RfFrame
RfProcess  == rf.pc = "process"  /\ rf' \in AfterRfProcess(rf)  /\ UNCHANGED fs /\ RfFrame
RfEnsureDirectory ==
    rf.pc = "mkdir" /\ rf' \in AfterRfEnsureDirectory(rf) /\ UNCHANGED fs /\ RfFrame
RfSave ==
    /\ rf.pc = "save"
    /\ \E n \in AfterRfSave(rf, fs) : rf' = n.c /\ fs' = n.fs
    /\ RfFrame
RfCollect  == rf.pc = "metadata" /\ rf' \in AfterRfCollect(rf)  /\ UNCHANGED fs /\ RfFrame

NextRf ==
    \/ RfList \/ RfFetch \/ RfDirect \/ RfFallback \/ RfProcess
    \/ RfEnsureDirectory \/ RfSave \/ RfCollect

SpecRf == InitRf /\ [][NextRf]_vars

----------------------------------------------------------------------------
(* trans_core.py: state machine *)

InitDl ==
    /\ rows = <<>> /\ list_fails = FALSE /\ preferred_language = NoLang
    /\ config \in Configs
    /\ first_call = NotCalled /\ last_call = NotCalled /\ first_config = config
    /\ dl \in { DlEntry(u, l, t, f, m, tr) :
                  u \in Urls, l \in LanguageArgs, t \in TemplateArgs, f \in FormatArgs,
                  m \in BOOLEAN, tr \in SeqsUpTo(Transcript, MaxDlTracks) }
    /\ fs = {}
    /\ rf = rfIdle
    /\ dl2 = dlIdle /\ inp = NoInput /\ out = NoOutput

DlFrame == UNCHANGED <<rows, list_fails, preferred_language, config, first_call,
                       last_call, first_config, rf, dl2, inp, out>>

DlValidate == dl.pc = "validate" /\ dl' \in AfterValidate(dl) /\ UNCHANGED fs /\ DlFrame
DlExtract  == dl.pc = "extract"  /\ dl' \in AfterExtract(dl)  /\ UNCHANGED fs /\ DlFrame
DlTemplate == dl.pc = "template" /\ dl' \in AfterTemplate(dl) /\ UNCHANGED fs /\ DlFrame
DlSelect   == dl.pc = "select"   /\ dl' \in AfterSelect(dl, config) /\ UNCHANGED fs /\ DlFrame
DlMetadata == dl.pc = "metadata" /\ dl' \in AfterMetadata(dl) /\ UNCHANGED fs /\ DlFrame
DlList     == dl.pc = "list"     /\ dl' \in AfterList(dl)     /\ UNCHANGED fs /\ DlFrame
DlFetch    == dl.pc = "fetch"    /\ dl' \in AfterFetch(dl)    /\ UNCHANGED fs /\ DlFrame
DlDirect   == dl.pc = "direct"   /\ dl' \in AfterDirect(dl)   /\ UNCHANGED fs /\ DlFrame
DlProcess  == dl.pc = "process"  /\ dl' \in AfterProcess(dl)  /\ UNCHANGED fs /\ DlFrame
DlWrite ==
    /\ dl.pc = "write"
    /\ \E n \in AfterWrite(dl, fs) : dl' = n.c /\ fs' = n.fs
    /\ DlFrame
DlExport ==
    /\ dl.pc = "export"
    /\ \E n \in AfterExport(dl, fs) : dl' = n.c /\ fs' = n.fs
    /\ DlFrame

NextDl ==
    \/ DlValidate \/ DlExtract \/ DlTemplate \/ DlSelect \/ DlMetadata \/ DlList
    \/ DlFetch \/ DlDirect \/ DlProcess \/ DlWrite \/ DlExport

SpecDl == InitDl /\ [][NextDl]_vars

\* one download through either pipeline
InitPipe == InitDl \/ InitRf
NextPipe == NextDl \/ NextRf
SpecPipe == InitPipe /\ [][NextPipe]_vars

----------------------------------------------------------------------------
(* trans_core.py: two calls of download_transcript whose steps interleave *)

\* a URL of a second video
OtherUrl == [pattern |-> "youtube.com/watch", host_upper |-> FALSE, id_chars |-> 11,
             video |-> "B"]
FirstUrl == [pattern |-> "youtube.com/watch", host_upper |-> FALSE, id_chars |-> 11,
             video |-> "A"]

\* the transcripts each of the two videos has
TwoCallTracks == {<<>>, <<[language_code |-> "en", is_generated |-> FALSE]>>}

\* download_transcript(url, language_code, include_metadata=include_metadata,
\* user_context=user_context): output_template, custom_download_path and
\* formats keep their defaults
DefaultEntry(url, language_code, include_metadata, user_context, tracks) ==
    [DlEntry(url, language_code, NoTemplate, NoFormats, include_metadata, tracks)
        EXCEPT !.user_context = user_context]

\* the next step of a call of download_transcript, whichever it is
CallStep(c, files, cfg) ==
    LET Keep(S) == {[c |-> d, fs |-> files] : d \in S}
    IN  CASE c.pc = "validate" -> Keep(AfterValidate(c))
          [] c.pc = "extract"  -> Keep(AfterExtract(c))
          [] c.pc = "template" -> Keep(AfterTemplate(c))
          [] c.pc = "select"   -> Keep(AfterSelect(c, cfg))
          [] c.pc = "metadata" -> Keep(AfterMetadata(c))
          [] c.pc = "list"     -> Keep(AfterList(c))
          [] c.pc = "fetch"    -> Keep(AfterFetch(c))
          [] c.pc = "direct"   -> Keep(AfterDirect(c))
          [] c.pc = "process"  -> Keep(AfterProcess(c))
          [] c.pc = "write"    -> AfterWrite(c, files)
          [] c.pc = "export"   -> AfterExport(c, files)
          [] OTHER             -> {}

InitDl2 ==
    /\ rows = <<>> /\ list_fails = FALSE /\ preferred_language = NoLang
    /\ config = [ok |-> TRUE, preferred_languages |-> <<>>]
    /\ first_call = NotCalled /\ last_call = NotCalled /\ first_config = config
    /\ \E uc \in BOOLEAN :
         /\ dl \in { DefaultEntry(FirstUrl, l, m, uc, tr) :
                       l \in {NoLang, "en"}, m \in BOOLEAN, tr \in TwoCallTracks }
         /\ dl2 \in { DefaultEntry(OtherUrl, l, m, uc, tr) :
                       l \in {NoLang, "en"}, m \in BOOLEAN, tr \in TwoCallTracks }
    /\ fs = {}
    /\ rf = rfIdle
    /\ inp = NoInput /\ out = NoOutput

FirstCallStep ==
    /\ \E n \in CallStep(dl, fs, config) : dl' = n.c /\ fs' = n.fs
    /\ UNCHANGED dl2 /\ DlFrame

SecondCallStep ==
    /\ \E n \in CallStep(dl2, fs, config) : dl2' = n.c /\ fs' = n.fs
    /\ UNCHANGED <<rows, list_fails, preferred_language, config, first_call,
                   last_call, first_config, dl, rf, inp, out>>

NextDl2 == FirstCallStep \/ SecondCallStep

SpecDl2 == InitDl2 /\ [][NextDl2]_vars

----------------------------------------------------------------------------
(* Pure functions: a call takes its arguments from inp and leaves its result *)
(* in out; the download pipelines and the selector stay idle                *)

PureIdle ==
    /\ rows = <<>> /\ list_fails = FALSE /\ preferred_language = NoLang
    /\ config = [ok |-> TRUE, preferred_languages |-> <<>>]
    /\ first_call = NotCalled /\ last_call = NotCalled /\ first_config = config
    /\ dl = dlIdle /\ fs = {} /\ rf = rfIdle /\ dl2 = dlIdle

PureFrame == UNCHANGED <<rows, list_fails, preferred_language, config, first_call,
                         last_call, first_config, dl, fs, rf, dl2>>

----------------------------------------------------------------------------
(* get_transcript_list.py: the LLM suitability line of print_transcript_preview *)

\* a key that the preview does not have
Absent == -1

\* quality scores and word counts around the limits of the bands
QualityScores == {0, 59, 60, 61, 69, 70, 71, 79, 80, 81, 100}
WordCounts == {0, 49, 50, 51, 99, 100, 101, 3000, 3001, 5000, 5001}

\* variant: the limits of the score are exclusive
LlmSuitability_Exclusive(quality_insights, statistics) ==
    IF quality_insights = Absent \/ statistics = Absent THEN "none"
    ELSE LET quality_score == quality_insights
             word_count == statistics
         IN  IF quality_score > 80 /\ 100 <= word_count /\ word_count <= 3000
             THEN "Excellent"
             ELSE IF quality_score > 70 /\ 50 <= word_count /\ word_count <= 5000
             THEN "Good"
             ELSE IF quality_score > 60 THEN "Fair"
             ELSE "Poor"

\* lines 312-324: the verdict printed for a preview whose quality_insights
\* hold quality_score and whose statistics hold word_count; nothing is
\* printed when either is missing
LlmSuitability(quality_insights, statistics) ==
    IF quality_insights = Absent \/ statistics = Absent THEN "none"
    ELSE LET quality_score == quality_insights
             word_count == statistics
         IN  IF quality_score >= 80 /\ 100 <= word_count /\ word_count <= 3000
             THEN "Excellent"
             ELSE IF quality_score >= 70 /\ 50 <= word_count /\ word_count <= 5000
             THEN "Good"
             ELSE IF quality_score >= 60 THEN "Fair"
             ELSE "Poor"

InitPreview ==
    /\ PureIdle
    /\ inp \in [kind : {"preview"},
                 quality_insights : QualityScores \cup {Absent},
                 statistics : WordCounts \cup {Absent}]
    /\ out = NoOutput

\* print_transcript_preview(preview) reaches its last section
PrintTranscriptPreview ==
    /\ inp.kind = "preview" /\ out = NoOutput
    /\ out' = [kind |-> "verdict",
               verdict |-> LlmSuitability(inp.quality_insights, inp.statistics)]
    /\ UNCHANGED inp /\ PureFrame

NextPreview == PrintTranscriptPreview

SpecPreview == InitPreview /\ [][NextPreview]_vars

----------------------------------------------------------------------------
(* metadata_collector: _categorize_quality *)

MaxScore == 100

\* test_categorize_quality finds 90 in Very Good and 95 in Excellent: the
\* score from which the category is Excellent lies above 90 and not above 95
ExcellentLimits == 91..95

\* the category of a score; Excellent starts at excellent_from
CategorizeQuality(score, excellent_from) ==
    IF score < 20 THEN "Very Poor"
    ELSE IF score < 40 THEN "Poor"
    ELSE IF score < 60 THEN "Fair"
    ELSE IF score < 80 THEN "Good"
    ELSE IF score < excellent_from THEN "Very Good"
    ELSE "Excellent"

InitCategorize ==
    /\ PureIdle
    /\ inp \in [kind : {"categorize"}, score : 0..MaxScore,
                 excellent_from : ExcellentLimits]
    /\ out = NoOutput

\* one call _categorize_quality(score)
CategorizeCall ==
    /\ inp.kind = "categorize" /\ out = NoOutput
    /\ out' = [kind |-> "category",
               category |-> CategorizeQuality(inp.score, inp.excellent_from)]
    /\ UNCHANGED inp /\ PureFrame

NextCategorize == CategorizeCall

SpecCategorize == InitCategorize /\ [][NextCategorize]_vars

----------------------------------------------------------------------------
(* transcript_processor: clean_text *)

MaxWords == 4

\* A text is its leading whitespace and its tokens, each with the whitespace
\* that follows it; a token is a word or a dash.
Words == {"the", "The", "um", "-"}
FillerWords == {"um"}
Gaps == 1..2
Token == [w : Words, gap : Gaps]
Texts == [lead : {0}, toks : SeqsUpTo(Token, MaxWords)]
CleanOptions ==
    [remove_filler_words : BOOLEAN, normalize_whitespace : BOOLEAN,
     fix_transcription_artifacts : BOOLEAN]

Lower(w) == IF w = "The" THEN "the" ELSE w

\* two tokens are the same word, whatever their case
SameWord(a, b) == a.w # "-" /\ Lower(a.w) = Lower(b.w)

\* filler-word removal: the standalone filler tokens are deleted, the
\* whitespace around them stays
RECURSIVE RemoveFillerWords(_)
RemoveFillerWords(text) ==
    IF \A i \in 1..Len(text.toks) : text.toks[i].w \notin FillerWords
    THEN text
    ELSE LET i == CHOOSE j \in 1..Len(text.toks) :
                      /\ text.toks[j].w \in FillerWords
                      /\ \A k \in 1..(j - 1) : text.toks[k].w \notin FillerWords
             gap == text.toks[i].gap
             rest == SubSeq(text.toks, i + 1, Len(text.toks))
         IN  RemoveFillerWords(
                 IF i = 1
                 THEN [lead |-> text.lead + gap, toks |-> rest]
                 ELSE [lead |-> text.lead,
                       toks |-> SubSeq(text.toks, 1, i - 2)
                                \o <<[text.toks[i - 1] EXCEPT !.gap = @ + gap]>>
                                \o rest])

\* whitespace normalisation: every run of whitespace becomes one space and
\* the ends are trimmed
NormalizeWhitespace(text) ==
    [lead |-> 0,
     toks |-> [i \in 1..Len(text.toks) |->
                  [text.toks[i] EXCEPT !.gap = IF i = Len(text.toks) THEN 0 ELSE 1]]]

\* variant: a duplicated word is removed once, and the scan goes on behind it
RECURSIVE DuplicatedWords_Once(_)
DuplicatedWords_Once(toks) ==
    IF Len(toks) < 2 THEN toks
    ELSE IF SameWord(toks[1], toks[2])
    THEN <<[toks[1] EXCEPT !.gap = toks[2].gap]>>
         \o DuplicatedWords_Once(SubSeq(toks, 3, Len(toks)))
    ELSE <<toks[1]>> \o DuplicatedWords_Once(Tail(toks))

\* artifact fix, first part: immediately duplicated words are removed, the
\* first occurrence keeps its casing
RECURSIVE DuplicatedWords(_)
DuplicatedWords(toks) ==
    IF Len(toks) < 2 THEN toks
    ELSE IF SameWord(toks[1], toks[2])
    THEN DuplicatedWords(<<[toks[1] EXCEPT !.gap = toks[2].gap]>>
                         \o SubSeq(toks, 3, Len(toks)))
    ELSE <<toks[1]>> \o DuplicatedWords(Tail(toks))

\* artifact fix, second part: dash-joined duplicates are removed
RECURSIVE DashDuplicates(_)
DashDuplicates(toks) ==
    IF Len(toks) < 3 THEN toks
    ELSE IF toks[2].w = "-" /\ SameWord(toks[1], toks[3])
    THEN DashDuplicates(<<[toks[1] EXCEPT !.gap = toks[3].gap]>>
                        \o SubSeq(toks, 4, Len(toks)))
    ELSE <<toks[1]>> \o DashDuplicates(Tail(toks))

FixTranscriptionArtifacts(text) ==
    [text EXCEPT !.toks = DashDuplicates(DuplicatedWords(@))]

\* clean(raw_text, options): the enabled steps, in the order filler words,
\* whitespace, artifacts
CleanText(text, options) ==
    LET a == IF options.remove_filler_words THEN RemoveFillerWords(text) ELSE text
        b == IF options.normalize_whitespace THEN NormalizeWhitespace(a) ELSE a
    IN  IF options.fix_transcription_artifacts THEN FixTranscriptionArtifacts(b) ELSE b

InitClean ==
    /\ PureIdle
    /\ inp \in [kind : {"clean"}, text : Texts, options : CleanOptions]
    /\ out = NoOutput

\* clean_text is called on a text, and again on what it returned
CleanCall ==
    /\ inp.kind = "clean" /\ out = NoOutput
    /\ LET once == CleanText(inp.text, inp.options)
       IN  out' = [kind |-> "cleaned", once |-> once,
                   twice |-> CleanText(once, inp.options)]
    /\ UNCHANGED inp /\ PureFrame

NextClean == CleanCall

SpecClean == InitClean /\ [][NextClean]_vars

----------------------------------------------------------------------------
(* transcript_processor: detect_chapters *)

MaxEntries == 4
MaxCalls == 3

\* the time between the starts of two consecutive entries, in seconds
StartSteps == {0, 1, 3}
MinGaps == {1, 2}
MinChapterLengths == {0, 2, 4}

\* entries in timestamp order; every entry has a text of its own
RECURSIVE EntriesFrom(_, _)
EntriesFrom(steps, start) ==
    IF steps = <<>> THEN <<>>
    ELSE <<[start |-> start + Head(steps)]>>
         \o EntriesFrom(Tail(steps), start + Head(steps))

EntryLists ==
    { [i \in 1..Len(e) |-> [start |-> e[i].start, text |-> i]] :
        e \in { EntriesFrom(<<0>> \o st, 0) : st \in SeqsUpTo(StartSteps, MaxEntries - 1) } }
    \cup {<<>>}

\* the chapter made of the entries first..last
Chapter(entries, first, last) ==
    [first |-> first, last |-> last,
     start_time |-> entries[first].start, end_time |-> entries[last].start,
     duration |-> entries[last].start - entries[first].start,
     text |-> [k \in 1..(last - first + 1) |-> entries[first + k - 1].text]]

\* variant: a candidate chapter that is too short is dropped
RECURSIVE Walk_DropShort(_, _, _, _, _)
Walk_DropShort(entries, i, first, min_gap, min_length) ==
    IF i > Len(entries)
    THEN <<Chapter(entries, first, Len(entries))>>
    ELSE IF entries[i].start - entries[i - 1].start > min_gap
    THEN IF entries[i - 1].start - entries[first].start >= min_length
         THEN <<Chapter(entries, first, i - 1)>>
              \o Walk_DropShort(entries, i + 1, i, min_gap, min_length)
         ELSE Walk_DropShort(entries, i + 1, i, min_gap, min_length)
    ELSE Walk_DropShort(entries, i + 1, first, min_gap, min_length)

\* the walk over the entries from entry i on, the candidate chapter having
\* begun at entry first: a gap above min_gap ends the candidate; a candidate
\* shorter than min_length is not emitted but goes on into the following
\* chapter; what is left at the end is emitted
RECURSIVE Walk(_, _, _, _, _)
Walk(entries, i, first, min_gap, min_length) ==
    IF i > Len(entries)
    THEN <<Chapter(entries, first, Len(entries))>>
    ELSE IF entries[i].start - entries[i - 1].start > min_gap
    THEN IF entries[i - 1].start - entries[first].start >= min_length
         THEN <<Chapter(entries, first, i - 1)>>
              \o Walk(entries, i + 1, i, min_gap, min_length)
         ELSE Walk(entries, i + 1, first, min_gap, min_length)
    ELSE Walk(entries, i + 1, first, min_gap, min_length)

\* segment(entries, min_gap_seconds, min_chapter_seconds)
DetectChapters(entries, min_gap, min_length) ==
    IF entries = <<>> THEN <<>> ELSE Walk(entries, 2, 1, min_gap, min_length)

InitChapters ==
    /\ PureIdle
    /\ inp \in [kind : {"segment"}, entries : EntryLists, min_gap : MinGaps,
                 min_length : MinChapterLengths]
    /\ out = NoOutput

\* one call detect_chapters(entries)
DetectChaptersCall ==
    /\ inp.kind = "segment" /\ out = NoOutput
    /\ out' = [kind |-> "chapters",
               chapters |-> DetectChapters(inp.entries, inp.min_gap, inp.min_length)]
    /\ UNCHANGED inp /\ PureFrame

NextChapters == DetectChaptersCall

SpecChapters == InitChapters /\ [][NextChapters]_vars

----------------------------------------------------------------------------
(* refactored_metadata_exporter.py: RealDataTransformer.generate_markdown *)

\* A dictionary of the metadata is described by whether it is there and by
\* which of the keys the report looks at it holds with a non-empty value.
\* A content_analysis that is there holds keywords, topics and a content type.
Dict(keys) == {[present |-> FALSE, keys |-> {}]}
              \cup [present : {TRUE}, keys : SUBSET keys]

VideoMetadataKeys == {"engagement_metrics", "channel_info", "technical_details"}
TranscriptAnalysisKeys == {"content_metrics", "content_analysis", "quality_assessment"}
ContentSummaryKeys == {"llm_suitability"}

\* the data handed to generate_markdown
MarkdownData ==
    {[comprehensive_metadata |-> FALSE,
      video_metadata |-> [present |-> FALSE, keys |-> {}],
      transcript_analysis |-> [present |-> FALSE, keys |-> {}],
      content_summary |-> [present |-> FALSE, keys |-> {}]]}
    \cup [comprehensive_metadata : {TRUE},
          video_metadata : Dict(VideoMetadataKeys),
          transcript_analysis : Dict(TranscriptAnalysisKeys),
          content_summary : Dict(ContentSummaryKeys)]

If(cond, lines) == IF cond THEN lines ELSE <<>>

\* _add_video_overview_section
AddVideoOverviewSection(video_metadata) ==
    <<"### Basic Information">>
    \o If("engagement_metrics" \in video_metadata.keys, <<"### Engagement Metrics">>)
    \o If("channel_info" \in video_metadata.keys, <<"### Channel Information">>)

\* _add_content_analysis_section
AddContentAnalysisSection(transcript_analysis) ==
    If("content_metrics" \in transcript_analysis.keys, <<"### Content Metrics">>)
    \o If("content_analysis" \in transcript_analysis.keys,
          <<"### Key Topics", "### Main Subjects", "### Content Categorization">>)

\* _add_quality_assessment_section
AddQualityAssessmentSection(transcript_analysis) ==
    If("quality_assessment" \in transcript_analysis.keys, <<"### Transcript Quality">>)

\* _add_technical_details_section
AddTechnicalDetailsSection(video_metadata) ==
    If("technical_details" \in video_metadata.keys, <<"### Video Technical Details">>)

\* _add_llm_suitability_section
AddLlmSuitabilitySection(content_summary) ==
    If("llm_suitability" \in content_summary.keys, <<"### Analysis Suitability">>)

\* generate_markdown, lines 408-467: the headings of the report in the order
\* they are appended
GenerateMarkdown(data) ==
    <<"# YouTube Video Analysis Report", "## Table of Contents">>
    \o If(data.comprehensive_metadata,
          <<"## Video Overview">>
          \o If(data.video_metadata.present, AddVideoOverviewSection(data.video_metadata))
          \o <<"## Content Analysis">>
          \o If(data.transcript_analysis.present,
                AddContentAnalysisSection(data.transcript_analysis))
          \o <<"## Quality Assessment">>
          \o If(data.transcript_analysis.present,
                AddQualityAssessmentSection(data.transcript_analysis))
          \o <<"## Technical Details">>
          \o If(data.video_metadata.present,
                AddTechnicalDetailsSection(data.video_metadata))
          \o <<"## LLM Suitability">>
          \o If(data.content_summary.present,
                AddLlmSuitabilitySection(data.content_summary)))

InitMarkdown ==
    /\ PureIdle
    /\ inp \in [kind : {"markdown"}, data : MarkdownData]
    /\ out = NoOutput

\* one call generate_markdown(data)
GenerateMarkdownCall ==
    /\ inp.kind = "markdown" /\ out = NoOutput
    /\ out' = [kind |-> "report", lines |-> GenerateMarkdown(inp.data)]
    /\ UNCHANGED inp /\ PureFrame

NextMarkdown == GenerateMarkdownCall

SpecMarkdown == InitMarkdown /\ [][NextMarkdown]_vars

----------------------------------------------------------------------------
(* refactored_metadata_exporter.py: MetadataExporter *)

FormatTypes == {"json", "csv", "markdown", "JSON", "xml"}

\* format_type.lower()
LowerFormat(format_type) == IF format_type = "JSON" THEN "json" ELSE format_type

\* what the data transformer (json.dumps for the JSON export) does with the
\* metadata: it gives content, gives an empty record, or raises
Transforms == {"content", "empty", "raises"}

OutputPath == [base |-> <<"out">>, suffix |-> "_metadata"]
NoFiles == {}
OldFiles == {[name |-> OutputPath, content |-> "old"]}

\* an export that ended without writing
NotExported(files) == [result |-> FALSE, wrote |-> FALSE, fs |-> files]

\* file_system.write_text_file(output_path, content), then return True; an
\* exception of the file system is caught and gives False
WriteAndReturn(a, files, content) ==
    IF a.write_fails THEN NotExported(files)
    ELSE [result |-> TRUE, wrote |-> TRUE, fs |-> WriteFile(files, OutputPath, content)]

\* export_json, lines 76-104
ExportJson(a, files) ==
    IF a.ensure_fails \/ a.transform = "raises" THEN NotExported(files)
    ELSE WriteAndReturn(a, files, "json")

\* variant: an empty flattened record is written like any other
ExportCsv_WriteEmpty(a, files) ==
    IF a.ensure_fails \/ a.transform = "raises" THEN NotExported(files)
    ELSE WriteAndReturn(a, files, "csv")

\* export_csv, lines 106-141
ExportCsv(a, files) ==
    IF a.ensure_fails \/ a.transform = "raises" THEN NotExported(files)
    ELSE IF a.transform = "empty" THEN NotExported(files)
    ELSE WriteAndReturn(a, files, "csv")

\* export_markdown, lines 143-171
ExportMarkdown(a, files) ==
    IF a.ensure_fails \/ a.transform = "raises" THEN NotExported(files)
    ELSE WriteAndReturn(a, files, "markdown")

\* export_metadata, lines 173-197
ExportMetadata(a, files) ==
    LET format_type == LowerFormat(a.format_type)
    IN  IF format_type = "json" THEN ExportJson(a, files)
        ELSE IF format_type = "csv" THEN ExportCsv(a, files)
        ELSE IF format_type = "markdown" THEN ExportMarkdown(a, files)
        ELSE NotExported(files)

InitExport ==
    /\ rows = <<>> /\ list_fails = FALSE /\ preferred_language = NoLang
    /\ config = [ok |-> TRUE, preferred_languages |-> <<>>]
    /\ first_call = NotCalled /\ last_call = NotCalled /\ first_config = config
    /\ dl = dlIdle /\ rf = rfIdle /\ dl2 = dlIdle
    /\ fs \in {NoFiles, OldFiles}
    /\ inp \in [kind : {"export"}, format_type : FormatTypes, transform : Transforms,
                 ensure_fails : BOOLEAN, write_fails : BOOLEAN]
    /\ out = NoOutput

\* one call export_metadata(metadata, format_type, output_path)
ExportMetadataCall ==
    /\ inp.kind = "export" /\ out = NoOutput
    /\ LET r == ExportMetadata(inp, fs)
       IN  /\ out' = [kind |-> "exported", result |-> r.result, wrote |-> r.wrote,
                       before |-> fs]
           /\ fs' = r.fs
    /\ UNCHANGED <<rows, list_fails, preferred_language, config, first_call,
                   last_call, first_config, dl, rf, dl2, inp>>

NextExport == ExportMetadataCall

SpecExport == InitExport /\ [][NextExport]_vars

----------------------------------------------------------------------------
(* video_core.py and download_monitor.py: download_video_with_audio; the    *)
(* arguments of the call are in inp, the call itself is in out             *)

ExpectedPath == "downloads/video.mp4"
Unknown == "unknown"

\* time.time() when the call begins, in seconds
StartTime == 10
\* how long before the call a file that is already there was written
FileAges == {0, 5}
\* how long ydl.download takes
DownloadSeconds == {0, 1, 2}

NoFile == [exists |-> FALSE, mtime |-> 0]
VideoFiles == {NoFile} \cup {[exists |-> TRUE, mtime |-> StartTime - a] : a \in FileAges}

\* what a function returns: a path, None, or a DownloadResult
ReturnsPath(path) == [type |-> "str", path |-> path, status |-> ""]
ReturnsNone == [type |-> "None", path |-> "", status |-> ""]
DownloadResult(path, status) == [type |-> "DownloadResult", path |-> path, status |-> status]
NotReturned == [type |-> "none", path |-> "", status |-> ""]

\* download_video_with_audio(url, force=force) is entered and calls
\* monitor_download; APP_CONFIG["features"] is part of the input
VideoEntry(a) ==
    [kind |-> "video", pc |-> "start", file |-> a.file, now |-> StartTime,
     start_time |-> 0, force |-> a.force, n_download |-> 0, wrote |-> FALSE,
     raised |-> FALSE, result_path |-> NotReturned, returned |-> NotReturned]

\* monitor_download, lines 50-55, and _download_video_internal, lines 317-353:
\* the start time is taken, the feature flags may set force, and
\* get_video_info may fail, which makes the internal function return None
AfterVideoStart(c, a) ==
    LET d == [c EXCEPT !.start_time = c.now,
                       !.force = c.force \/ a.use_database_as_source
                                         \/ ~a.enable_file_existence_check]
    IN  { [d EXCEPT !.pc = "check"],
          [d EXCEPT !.pc = "monitor", !.result_path = ReturnsNone] }

\* _download_video_internal, lines 355-361: the file check
AfterVideoCheck(c, a) ==
    IF ~c.force /\ c.file.exists
    THEN [c EXCEPT !.pc = "monitor", !.result_path = ReturnsPath(ExpectedPath)]
    ELSE [c EXCEPT !.pc = "download"]

\* _perform_download, lines 262-283: ydl.download writes the file, writes
\* nothing or raises; the file is then looked for
AfterVideoDownload(c) ==
    LET d == [c EXCEPT !.n_download = @ + 1]
    IN  { [d EXCEPT !.pc = "monitor", !.now = @ + s, !.wrote = TRUE,
                    !.file = [exists |-> TRUE, mtime |-> c.now + s],
                    !.result_path = ReturnsPath(ExpectedPath)] : s \in DownloadSeconds }
        \cup
        { [d EXCEPT !.pc = "monitor", !.now = @ + s,
                    !.result_path = IF c.file.exists THEN ReturnsPath(ExpectedPath)
                                    ELSE ReturnsNone] : s \in DownloadSeconds }
        \cup
        { [d EXCEPT !.pc = "monitor", !.raised = TRUE] }

\* monitor_download, lines 65-89: the file counts as downloaded when it was
\* modified more than one second after the start
Classify(c) ==
    IF c.file.mtime - c.start_time > 1 THEN "downloaded" ELSE "already_exists"

\* monitor_download, lines 57-102
AfterVideoMonitor(c) ==
    [c EXCEPT !.pc = "done",
              !.returned =
                  IF c.raised THEN DownloadResult(Unknown, "failed")
                  ELSE IF c.result_path.type = "None" THEN DownloadResult(Unknown, "failed")
                  ELSE IF ~c.file.exists THEN DownloadResult(c.result_path.path, "failed")
                  ELSE DownloadResult(c.result_path.path, Classify(c))]

InitVideo ==
    /\ PureIdle
    /\ inp \in [kind : {"video"}, force : BOOLEAN, use_database_as_source : BOOLEAN,
                 enable_file_existence_check : BOOLEAN, file : VideoFiles]
    /\ out = VideoEntry(inp)

VideoStart ==
    /\ out.kind = "video" /\ out.pc = "start"
    /\ out' \in AfterVideoStart(out, inp)
    /\ UNCHANGED inp /\ PureFrame

VideoCheck ==
    /\ out.kind = "video" /\ out.pc = "check"
    /\ out' = AfterVideoCheck(out, inp)
    /\ UNCHANGED inp /\ PureFrame

VideoDownload ==
    /\ out.kind = "video" /\ out.pc = "download"
    /\ out' \in AfterVideoDownload(out)
    /\ UNCHANGED inp /\ PureFrame

VideoMonitor ==
    /\ out.kind = "video" /\ out.pc = "monitor"
    /\ out' = AfterVideoMonitor(out)
    /\ UNCHANGED inp /\ PureFrame

NextVideo == VideoStart \/ VideoCheck \/ VideoDownload \/ VideoMonitor

SpecVideo == InitVideo /\ [][NextVideo]_vars

----------------------------------------------------------------------------
(* user_context.py, path_utils.py: UserContext and the download paths *)

ContextIds == {1, 2}
\* generate_session_uuid() for the i-th user: a new value for each
GenerateSessionUuid(i) == IF i = 1 THEN "s1" ELSE "s2"
VideoUuids == {"v1", "v2"}
VideoUrls == {"url_a", "url_b"}
MediaTypes == {"audio", "video", "transcripts"}
\* base_dir is None
NoBaseDir == ""
BaseDirs == {NoBaseDir, "media"}
\* config["download"]["download_path"]
DefaultDownloadPath == "downloads"
NoUrl == ""
NoUuid == ""
NoPath == <<>>

\* UserContext(session_uuid): the given session or a generated one, no videos
NewUserContext(session_uuid) == [session_uuid |-> session_uuid, video_sessions |-> <<>>]

\* video_url in self._video_sessions
HasVideo(video_sessions, video_url) ==
    \E i \in 1..Len(video_sessions) : video_sessions[i].video_url = video_url

\* self._video_sessions[video_url]
VideoUuidOf(video_sessions, video_url) ==
    video_sessions[CHOOSE i \in 1..Len(video_sessions) :
                       video_sessions[i].video_url = video_url].video_uuid

\* list(self._video_sessions.keys())
UrlList(video_sessions) == [i \in 1..Len(video_sessions) |-> video_sessions[i].video_url]

\* list(self._video_sessions.values())
UuidList(video_sessions) == [i \in 1..Len(video_sessions) |-> video_sessions[i].video_uuid]

\* variant: every call generates a new value for the URL
GetVideoUuid_Regenerate(ctx, video_url, generated) ==
    LET sessions == IF HasVideo(ctx.video_sessions, video_url)
                    THEN [k \in 1..Len(ctx.video_sessions) |->
                             IF ctx.video_sessions[k].video_url = video_url
                             THEN [video_url |-> video_url, video_uuid |-> generated]
                             ELSE ctx.video_sessions[k]]
                    ELSE Append(ctx.video_sessions,
                                [video_url |-> video_url, video_uuid |-> generated])
    IN  [ctx |-> [ctx EXCEPT !.video_sessions = sessions], video_uuid |-> generated]

\* get_video_uuid: a URL the map lacks gets the value generate_video_uuid() gave
GetVideoUuid(ctx, video_url, generated) ==
    LET sessions == IF HasVideo(ctx.video_sessions, video_url)
                    THEN ctx.video_sessions
                    ELSE Append(ctx.video_sessions,
                                [video_url |-> video_url, video_uuid |-> generated])
    IN  [ctx |-> [ctx EXCEPT !.video_sessions = sessions],
         video_uuid |-> VideoUuidOf(sessions, video_url)]

\* variant: the session is not part of the path
CreateDownloadStructure_NoSession(base_dir, session_uuid, video_uuid, media_type) ==
    <<base_dir, video_uuid, media_type>>

\* Path(base_dir) / session_uuid / video_uuid / media_type
CreateDownloadStructure(base_dir, session_uuid, video_uuid, media_type) ==
    <<base_dir, session_uuid, video_uuid, media_type>>

GetUserDownloadPath(session_uuid, video_uuid, media_type, base_dir) ==
    CreateDownloadStructure(IF base_dir = NoBaseDir THEN DefaultDownloadPath ELSE base_dir,
                            session_uuid, video_uuid, media_type)

\* variant: the path accessors do not keep the URL in the map
GetDownloadPath_Untracked(ctx, video_url, media_type, base_dir, generated) ==
    LET got == GetVideoUuid(ctx, video_url, generated)
    IN  [ctx |-> ctx, video_uuid |-> got.video_uuid,
         path |-> GetUserDownloadPath(ctx.session_uuid, got.video_uuid, media_type, base_dir)]

\* get_audio_download_path, get_video_download_path, get_transcript_download_path
GetDownloadPath(ctx, video_url, media_type, base_dir, generated) ==
    LET got == GetVideoUuid(ctx, video_url, generated)
    IN  [ctx |-> got.ctx, video_uuid |-> got.video_uuid,
         path |-> GetUserDownloadPath(ctx.session_uuid, got.video_uuid, media_type, base_dir)]

NoCall == [ctx |-> 0, accessor |-> "none", video_url |-> NoUrl, base_dir |-> NoBaseDir]

NothingReturned ==
    [session_uuid |-> "", video_url |-> NoUrl, video_uuid |-> NoUuid, path |-> NoPath,
     total_videos |-> 0, video_urls |-> <<>>, video_uuids |-> <<>>]

\* the state of the contexts after a call on context i; asked and yielded
\* keep what the accessors of each context were given and what paths they
\* gave, first_uuid what get_video_uuid returned first for each URL
AfterContextCall(c, i, ctx, video_url, video_uuid, path, returned) ==
    [c EXCEPT !.contexts[i] = ctx,
              !.asked[i] = IF video_url = NoUrl THEN @ ELSE @ \cup {video_url},
              !.first_uuid[i] = IF video_url = NoUrl \/ @[video_url] # NoUuid THEN @
                                ELSE [@ EXCEPT ![video_url] = video_uuid],
              !.yielded[i] = IF path = NoPath THEN @ ELSE @ \cup {path},
              !.dirs = IF path = NoPath THEN @ ELSE @ \cup {path},
              !.n_calls = @ + 1,
              !.returned = returned]

InitContexts ==
    /\ PureIdle
    /\ inp = [kind |-> "context_call", call |-> NoCall]
    /\ out = [kind |-> "contexts",
              contexts |-> [i \in ContextIds |-> NewUserContext(GenerateSessionUuid(i))],
              asked |-> [i \in ContextIds |-> {}],
              first_uuid |-> [i \in ContextIds |-> [u \in VideoUrls |-> NoUuid]],
              yielded |-> [i \in ContextIds |-> {}],
              dirs |-> {},
              n_calls |-> 0,
              returned |-> NothingReturned]

\* what generate_video_uuid may give; it is called only for a URL the map lacks
Generated(ctx, video_url) ==
    IF HasVideo(ctx.video_sessions, video_url) THEN {NoUuid} ELSE VideoUuids

CanCall == out.kind = "contexts" /\ out.n_calls < MaxCalls

GetVideoUuidCall ==
    /\ CanCall
    /\ \E i \in ContextIds, video_url \in VideoUrls :
        \E generated \in Generated(out.contexts[i], video_url) :
           LET got == GetVideoUuid(out.contexts[i], video_url, generated)
           IN  /\ inp' = [inp EXCEPT !.call = [ctx |-> i, accessor |-> "get_video_uuid",
                                               video_url |-> video_url,
                                               base_dir |-> NoBaseDir]]
               /\ out' = AfterContextCall(out, i, got.ctx, video_url, got.video_uuid, NoPath,
                             [NothingReturned EXCEPT !.video_uuid = got.video_uuid])
    /\ PureFrame

\* one of the three path accessors, called on context i
DownloadPathStep(i, accessor, media_type, video_url, base_dir, generated) ==
    LET got == GetDownloadPath(out.contexts[i], video_url, media_type, base_dir, generated)
    IN  /\ inp' = [inp EXCEPT !.call = [ctx |-> i, accessor |-> accessor,
                                        video_url |-> video_url, base_dir |-> base_dir]]
        /\ out' = AfterContextCall(out, i, got.ctx, video_url, got.video_uuid, got.path,
                      [NothingReturned EXCEPT !.path = got.path])

GetAudioDownloadPathCall ==
    /\ CanCall
    /\ \E i \in ContextIds, video_url \in VideoUrls, base_dir \in BaseDirs :
        \E generated \in Generated(out.contexts[i], video_url) :
           DownloadPathStep(i, "get_audio_download_path", "audio",
                            video_url, base_dir, generated)
    /\ PureFrame

GetVideoDownloadPathCall ==
    /\ CanCall
    /\ \E i \in ContextIds, video_url \in VideoUrls, base_dir \in BaseDirs :
        \E generated \in Generated(out.contexts[i], video_url) :
           DownloadPathStep(i, "get_video_download_path", "video",
                            video_url, base_dir, generated)
    /\ PureFrame

GetTranscriptDownloadPathCall ==
    /\ CanCall
    /\ \E i \in ContextIds, video_url \in VideoUrls, base_dir \in BaseDirs :
        \E generated \in Generated(out.contexts[i], video_url) :
           DownloadPathStep(i, "get_transcript_download_path", "transcripts",
                            video_url, base_dir, generated)
    /\ PureFrame

GetSessionInfoCall ==
    /\ CanCall
    /\ \E i \in ContextIds :
           LET ctx == out.contexts[i]
           IN  /\ inp' = [inp EXCEPT !.call = [ctx |-> i, accessor |-> "get_session_info",
                                               video_url |-> NoUrl,
                                               base_dir |-> NoBaseDir]]
               /\ out' = AfterContextCall(out, i, ctx, NoUrl, NoUuid, NoPath,
                             [NothingReturned EXCEPT
                                  !.session_uuid = ctx.session_uuid,
                                  !.total_videos = Len(ctx.video_sessions),
                                  !.video_urls = UrlList(ctx.video_sessions),
                                  !.video_uuids = UuidList(ctx.video_sessions)])
    /\ PureFrame

GetVideoInfoCall ==
    /\ CanCall
    /\ \E i \in ContextIds, video_url \in VideoUrls :
        \E generated \in Generated(out.contexts[i], video_url) :
           LET got == GetVideoUuid(out.contexts[i], video_url, generated)
           IN  /\ inp' = [inp EXCEPT !.call = [ctx |-> i, accessor |-> "get_video_info",
                                               video_url |-> video_url,
                                               base_dir |-> NoBaseDir]]
               /\ out' = AfterContextCall(out, i, got.ctx, video_url, got.video_uuid, NoPath,
                             [NothingReturned EXCEPT
                                  !.video_url = video_url,
                                  !.video_uuid = got.video_uuid,
                                  !.session_uuid = got.ctx.session_uuid])
    /\ PureFrame

NextContexts ==
    \/ GetVideoUuidCall
    \/ GetAudioDownloadPathCall
    \/ GetVideoDownloadPathCall
    \/ GetTranscriptDownloadPathCall
    \/ GetSessionInfoCall
    \/ GetVideoInfoCall

SpecContexts == InitContexts /\ [][NextContexts]_vars

----------------------------------------------------------------------------
(* trans_core_cli.py, refactored_trans_core_cli.py: the dispatch of run *)

CliLanguages == {NoLang, "en", "fr"}

\* args as parse_transcript_args gives them; the flags are independent
\* store_true options. fails: the dependency the handler calls raises
CliArgs ==
    [kind : {"cli"}, metadata : BOOLEAN, preview : BOOLEAN, list_languages : BOOLEAN,
     language : CliLanguages, fails : BOOLEAN]

\* one handler call: the handler and the language its dependency is given
HandlerCall(handler, language) == [handler |-> handler, language |-> language]

NotRun == [outcome |-> "none", handlers |-> <<>>]

\* language_code or "en"
OrEnglish(language) == IF language = NoLang THEN "en" ELSE language

\* RefactoredTranscriptCLI.run: every handler catches the exceptions of its
\* dependency and prints the error, so run returns
RefactoredRun(args) ==
    [outcome  |-> "returned",
     handlers |-> IF args.metadata
                  THEN <<HandlerCall("metadata", NoLang)>>
                  ELSE IF args.preview
                  THEN <<HandlerCall("preview", OrEnglish(args.language))>>
                  ELSE IF args.list_languages
                  THEN <<HandlerCall("list_languages", NoLang)>>
                  ELSE <<HandlerCall("download", OrEnglish(args.language))>>]

\* TranscriptCLIController.run: a handler re-raises the exception of its
\* dependency; run reports it with handle_download_error and raises again
OriginalRun(args) ==
    [outcome  |-> IF args.fails THEN "raised" ELSE "returned",
     handlers |-> IF args.list_languages
                  THEN <<HandlerCall("list_languages", NoLang)>>
                  ELSE IF args.metadata
                  THEN <<HandlerCall("metadata", NoLang)>>
                  ELSE IF args.preview
                  THEN <<HandlerCall("preview", args.language)>>
                  ELSE <<HandlerCall("download", args.language)>>]

InitCli ==
    /\ PureIdle
    /\ inp \in CliArgs
    /\ out = [kind |-> "cli", refactored |-> NotRun, original |-> NotRun]

RefactoredRunCall ==
    /\ out.kind = "cli" /\ out.refactored = NotRun
    /\ out' = [out EXCEPT !.refactored = RefactoredRun(inp)]
    /\ UNCHANGED inp
    /\ PureFrame

OriginalRunCall ==
    /\ out.kind = "cli" /\ out.original = NotRun
    /\ out' = [out EXCEPT !.original = OriginalRun(inp)]
    /\ UNCHANGED inp
    /\ PureFrame

NextCli == RefactoredRunCall \/ OriginalRunCall

SpecCli == InitCli /\ [][NextCli]_vars

----------------------------------------------------------------------------
(* Selector: state machine *)


InitSel ==
    /\ list_fails \in BOOLEAN
    /\ rows \in (IF list_fails THEN {<<>>} ELSE SeqsUpTo(Row, MaxTracks))
    /\ preferred_language \in PrefLangs
    /\ config \in Configs
    /\ first_call = NotCalled
    /\ last_call = NotCalled
    /\ first_config = config
    /\ dl = dlIdle
    /\ fs = {}
    /\ rf = rfIdle
    /\ dl2 = dlIdle /\ inp = NoInput /\ out = NoOutput

\* one call print_and_select_default_transcript(video_id, preferred_language)
SelectCall ==
    /\ dl.pc = "idle" /\ rf.pc = "idle"
    /\ last_call' = [result |-> PrintAndSelectDefaultTranscript(rows, list_fails,
                                            preferred_language, config),
                     preferred_language |-> EffectivePreferred(preferred_language, config)]
    /\ first_call' = IF first_call = NotCalled THEN last_call' ELSE first_call
    /\ first_config' = IF first_call = NotCalled THEN config ELSE first_config
    /\ UNCHANGED <<rows, list_fails, preferred_language, config, dl, fs, rf,
                   dl2, inp, out>>

\* the configuration module is edited between two calls; one edit after
\* the first call reaches every pair of a first and a later call
SetConfig ==
    /\ dl.pc = "idle" /\ rf.pc = "idle"
    /\ first_call # NotCalled
    /\ config = first_config
    /\ \E c \in Configs : c # config /\ config' = c
    /\ UNCHANGED <<rows, list_fails, preferred_language, first_call, last_call,
                   first_config, dl, fs, rf, dl2, inp, out>>

NextSel == SelectCall \/ SetConfig

SpecSel == InitSel /\ [][NextSel]_vars

\* what get_transcript_list may give: language and kind of each transcript
ListedTranscript == [language_code : Langs, is_generated : BOOLEAN]

\* the selector over the rows list_transcript_metadata makes of a listing
InitListing ==
    /\ list_fails = FALSE
    /\ rows \in {ListTranscriptMetadata(transcript_list) :
                    transcript_list \in SeqsUpTo(ListedTranscript, MaxTracks)}
    /\ preferred_language \in PrefLangs
    /\ config \in Configs
    /\ first_call = NotCalled
    /\ last_call = NotCalled
    /\ first_config = config
    /\ dl = dlIdle
    /\ fs = {}
    /\ rf = rfIdle
    /\ dl2 = dlIdle /\ inp = NoInput /\ out = NoOutput

SpecListing == InitListing /\ [][NextSel]_vars

----------------------------------------------------------------------------
(* Selector: claims *)

Called == last_call # NotCalled
Selected == last_call.result.track
SomeDefault == \E i \in 1..Len(rows) : rows[i].is_default
Matches(lang) == \E i \in 1..Len(rows) : rows[i].language_code = lang
SomeManual == \E i \in 1..Len(rows) : ~rows[i].is_generated
AllAuto == \A i \in 1..Len(rows) : rows[i].is_generated
SomeEnglishAuto ==
    \E i \in 1..Len(rows) : rows[i].is_generated /\ rows[i].language_code \in {"en", "en-US", "en-GB"}
FirstManual ==
    CHOOSE i \in 1..Len(rows) :
        ~rows[i].is_generated /\ \A j \in 1..(i - 1) : rows[j].is_generated
\* the language the latest call looked for: the argument, or the first
\* configured language when no argument was given
LookedFor == last_call.preferred_language

\* C1: when some track is flagged is_default, the selector returns a track
\* flagged is_default, whatever preferred_language is.
C1_DefaultWins ==
    (Called /\ SomeDefault) =>
        (Selected \in 1..Len(rows) /\ rows[Selected].is_default)

\* a call where preferred_language names a track that is not flagged, while
\* another track is flagged
C1_Witness ==
    /\ Called
    /\ preferred_language # NoLang
    /\ \E i \in 1..Len(rows) : rows[i].language_code = preferred_language /\ ~rows[i].is_default
    /\ Selected \in 1..Len(rows)
    /\ rows[Selected].is_default
    /\ rows[Selected].language_code # preferred_language

\* C2: with no track flagged is_default and preferred_language the
\* language_code of some track, the selector returns a track with exactly
\* that language_code, even if a manual or English auto track is present.
C2_PreferredLanguage ==
    (Called /\ ~SomeDefault /\ preferred_language # NoLang /\ Matches(preferred_language)) =>
        (Selected \in 1..Len(rows) /\ rows[Selected].language_code = preferred_language)

\* the preferred auto-generated track is returned although a manual track of
\* another language comes first
C2_Witness ==
    /\ Called /\ ~SomeDefault
    /\ preferred_language # NoLang
    /\ Len(rows) >= 2
    /\ ~rows[1].is_generated /\ rows[1].language_code # preferred_language
    /\ Selected > 1
    /\ rows[Selected].is_generated
    /\ rows[Selected].language_code = preferred_language

----------------------------------------------------------------------------
(* download_transcript: claims *)

\* the URLs that fail validation or carry no extractable video id, told by
\* the URL alone
BadInput(url) ==
    \/ url.pattern \notin {"youtube.com/watch", "youtu.be/", "youtube.com/embed/", "youtube.com/v/"}
    \/ url.host_upper
    \/ url.id_chars < 11

NothingDone ==
    /\ dl.n_list = 0 /\ dl.n_track_fetch = 0 /\ dl.n_direct_fetch = 0
    /\ dl.n_metadata = 0 /\ dl.n_mkdir = 0 /\ fs = {}

\* C7: for a URL that fails validation or yields no video id,
\* download_transcript raises ValueError before any listing, any fetch, any
\* video-metadata request and any directory or file creation, and never
\* goes past the two checks.
C7_FailFast ==
    (dl.pc # "idle" /\ BadInput(dl.url)) =>
        /\ dl.pc \in {"validate", "extract", "raised"}
        /\ (dl.pc = "raised" => dl.error = "ValueError")
        /\ NothingDone

\* a URL that passes validation and has a ten-character id was rejected
C7_Witness ==
    /\ dl.pc = "raised" /\ dl.error = "ValueError"
    /\ dl.url.pattern = "youtube.com/watch" /\ dl.url.id_chars = 10
    /\ NothingDone

\* C8: when no language is given and the selector returns None,
\* download_transcript raises the 'no suitable transcript' error, having
\* fetched no transcript data and written no file.
C8_NoSuitableTranscript ==
    (dl.pc # "idle" /\ dl.selected = 0) =>
        /\ dl.pc = "raised"
        /\ dl.error = "RuntimeError: No suitable transcript found for this video"
        /\ dl.n_track_fetch = 0 /\ dl.n_direct_fetch = 0
        /\ fs = {}

\* the selector found an empty listing after the output directory was made
C8_Witness ==
    /\ dl.pc = "raised" /\ dl.selected = 0 /\ ~dl.list_failed
    /\ dl.tracks = <<>> /\ dl.n_list = 1 /\ dl.n_mkdir = 1
    /\ fs = {}

\* C9: a failed video-metadata extraction or metadata export never makes
\* download_transcript raise: after such a failure the call raises only
\* because the listing, a fetch, the processing or a write failed, and
\* otherwise it returns, with its file written, every requested format.
C9_EnrichmentNeverAborts ==
    (dl.pc \in {"returned", "raised"} /\ (dl.metadata_failed \/ dl.export_failed)) =>
        /\ dl.pc = "raised" =>
              dl.cause \in {"list", "fetch", "direct", "empty", "process", "write"}
        /\ dl.pc = "returned" =>
              /\ dl.saved_files = {dl.formats[i] : i \in 1..Len(dl.formats)}
              /\ \A i \in 1..Len(dl.formats) :
                    \E f \in fs : f.name = TranscriptFileName(dl.output_template, dl.formats[i])

\* both the metadata extraction and the export failed and the three default
\* formats were returned
C9_Witness ==
    /\ dl.pc = "returned"
    /\ dl.metadata_failed /\ dl.export_failed
    /\ dl.saved_files = {"clean", "timestamped", "structured"}
    /\ Cardinality({f \in fs : f.name.suffix \in {"_clean.txt", "_timestamped.txt", "_structured.json"}}) = 3

\* C10: within one transcript download an upstream operation that has failed
\* (the track listing, a track's fetch, the direct fetch by language) is
\* never invoked again.
C10_NoRetry ==
    [][ /\ dl.list_failed => dl'.n_list = dl.n_list
        /\ dl.track_fetch_failed => dl'.n_track_fetch = dl.n_track_fetch
        /\ dl.direct_fetch_failed => dl'.n_direct_fetch = dl.n_direct_fetch
        /\ rf.list_failed => rf'.n_list = rf.n_list
        /\ rf.track_fetch_failed => rf'.n_track_fetch = rf.n_track_fetch
        /\ rf.direct_fetch_failed => rf'.n_direct_fetch = rf.n_direct_fetch ]_vars

----------------------------------------------------------------------------
(* Two calls for two videos *)

\* the two calls have returned
BothReturned == dl.pc = "returned" /\ dl2.pc = "returned"

\* every file the call reports holds the transcript of the call's video, and
\* the metadata the call exported was read from a file of the call's video
OwnFiles(c) ==
    /\ \A format_name \in c.saved_files :
          ReadFile(fs, TranscriptFileName(c.output_template, format_name)) = c.video_id
    /\ c.exported_from \in {NoVideo, c.video_id}

\* C11: when two calls of download_transcript for two different videos, with
\* the default output settings, have both returned, the files each call
\* reports hold its own video's transcript and the metadata each exported was
\* derived from its own video.
C11_Independent ==
    BothReturned => OwnFiles(dl) /\ OwnFiles(dl2)

----------------------------------------------------------------------------
(* File names of one download *)

\* the suffixes of the naming convention
ConventionSuffixes ==
    {"_clean.txt", "_timestamped.txt", "_structured.json", "_metadata.csv", "_report.md"}

\* all files on disk have the same base name
OneBaseName == \A f \in fs, g \in fs : f.name.base = g.name.base

\* C12: all files one call of download_transcript produces share one base
\* name and carry only the suffixes _clean.txt, _timestamped.txt,
\* _structured.json, _metadata.csv and _report.md.
C12_OneBaseName ==
    /\ OneBaseName
    /\ \A f \in fs : f.name.suffix \in ConventionSuffixes

----------------------------------------------------------------------------
(* LLM suitability *)

Verdict == out.verdict
Judged ==
    out.kind = "verdict" /\ inp.quality_insights # Absent /\ inp.statistics # Absent

\* the bands, each without the test of the bands before it
ExcellentBand ==
    inp.quality_insights >= 80 /\ 100 <= inp.statistics /\ inp.statistics <= 3000
GoodBand ==
    inp.quality_insights >= 70 /\ 50 <= inp.statistics /\ inp.statistics <= 5000
FairBand == inp.quality_insights >= 60

\* C13: for every quality_score and word_count the verdict is Excellent in
\* the excellent band, otherwise Good in the good band, otherwise Fair from
\* a score of 60, otherwise Poor; each input gets exactly one of the four.
C13_Bands ==
    Judged =>
        /\ Verdict \in {"Excellent", "Good", "Fair", "Poor"}
        /\ (Verdict = "Excellent") <=> ExcellentBand
        /\ (Verdict = "Good") <=> (~ExcellentBand /\ GoodBand)
        /\ (Verdict = "Fair") <=> (~ExcellentBand /\ ~GoodBand /\ FairBand)
        /\ (Verdict = "Poor") <=> (~ExcellentBand /\ ~GoodBand /\ ~FairBand)

\* a score of exactly 80 with exactly 3000 words is judged
C13_Witness ==
    Judged /\ inp.quality_insights = 80 /\ inp.statistics = 3000
           /\ Verdict = "Excellent"

----------------------------------------------------------------------------
(* Quality category *)

\* the category the thresholds 20, 40, 60, 80 and 90 give
ThresholdCategory(score) ==
    IF score < 20 THEN "Very Poor"
    ELSE IF score <= 39 THEN "Poor"
    ELSE IF score <= 59 THEN "Fair"
    ELSE IF score <= 79 THEN "Good"
    ELSE IF score <= 89 THEN "Very Good"
    ELSE "Excellent"

\* C14: the category of a quality score is Very Poor below 20, Poor from 20
\* to 39, Fair from 40 to 59, Good from 60 to 79, Very Good from 80 to 89 and
\* Excellent from 90; a score of exactly 90 is Excellent.
C14_Thresholds ==
    out.kind = "category" => out.category = ThresholdCategory(inp.score)

----------------------------------------------------------------------------
(* Text cleaning *)

----------------------------------------------------------------------------
(* Chapters *)

RECURSIVE ConcatText(_)
ConcatText(chapters) ==
    IF chapters = <<>> THEN <<>> ELSE Head(chapters).text \o ConcatText(Tail(chapters))

\* C16: the chapters of an entry list cover the entries from the first to
\* the last with no gap and no overlap, their texts in order give the texts
\* of all entries in order, and no entries give no chapters.
C16_Partition ==
    out.kind = "chapters" =>
        LET entries == inp.entries
            chapters == out.chapters
            n == Len(chapters)
        IN  /\ (entries = <<>>) => (chapters = <<>>)
            /\ (entries # <<>>) =>
                  /\ n >= 1
                  /\ chapters[1].first = 1
                  /\ chapters[n].last = Len(entries)
                  /\ \A k \in 1..n : chapters[k].first <= chapters[k].last
                  /\ \A k \in 1..(n - 1) : chapters[k + 1].first = chapters[k].last + 1
            /\ ConcatText(chapters) = [i \in 1..Len(entries) |-> entries[i].text]

\* a short candidate chapter went into the following one, and a second
\* chapter was emitted
C16_Witness ==
    /\ out.kind = "chapters"
    /\ Len(out.chapters) >= 2
    /\ \E k \in 1..Len(out.chapters) :
         \E i \in (out.chapters[k].first + 1)..out.chapters[k].last :
            inp.entries[i].start - inp.entries[i - 1].start > inp.min_gap

----------------------------------------------------------------------------
(* Markdown report *)

\* the five sections, by their headings in the report
SectionHeadings ==
    <<"## Video Overview", "## Content Analysis", "## Quality Assessment",
      "## Technical Details", "## LLM Suitability">>

Rendered(heading) == \E i \in 1..Len(out.lines) : out.lines[i] = heading

\* the data behind a section is in the metadata
Backed(heading) ==
    CASE heading = "## Video Overview"     -> inp.data.video_metadata.present
      [] heading = "## Content Analysis"   -> inp.data.transcript_analysis.present
      [] heading = "## Quality Assessment" -> inp.data.transcript_analysis.present
      [] heading = "## Technical Details"  -> inp.data.video_metadata.present
      [] heading = "## LLM Suitability"    -> inp.data.content_summary.present

\* the sections that are rendered come in the fixed order
FixedOrder ==
    \A i \in 1..Len(out.lines), j \in 1..Len(out.lines) :
        \A a \in 1..5, b \in 1..5 :
            (out.lines[i] = SectionHeadings[a] /\ out.lines[j] = SectionHeadings[b]
             /\ a < b) => i < j

\* C18: the report renders the sections Overview, Content Analysis, Quality
\* Assessment, Technical Details and LLM Suitability in that order, and a
\* section, its heading included, is rendered only if the data behind it is
\* in the metadata.
C18_Sections ==
    out.kind = "report" =>
        /\ FixedOrder
        /\ \A a \in 1..5 : Rendered(SectionHeadings[a]) => Backed(SectionHeadings[a])

----------------------------------------------------------------------------
(* Failures of the refactored downloader *)

\* a call of the API raised during the download
ApiFailed == rf.list_failed \/ rf.track_fetch_failed \/ rf.direct_fetch_failed

\* the result of a failed download
FailureResult ==
    ~rf.success /\ rf.error # "" /\ rf.file_paths = {} /\ ~rf.metadata

\* C19: RefactoredTranscriptDownloader.download_transcript raises nothing,
\* and whenever the API, the processor, the file manager or the metadata
\* collector failed it returns success = False with the failure in error and
\* with empty file_paths and metadata.
C19_FailureResult ==
    /\ rf.pc # "raised"
    /\ (rf.pc = "returned" /\ (ApiFailed \/ rf.error # "")) => FailureResult

----------------------------------------------------------------------------
(* Metadata export *)

Exported == out.kind = "exported"

\* the format is none of json, csv and markdown in any case
UnsupportedFormat == inp.format_type \notin {"json", "JSON", "csv", "markdown"}
EmptyCsv == inp.format_type = "csv" /\ inp.transform = "empty"
ExportRaises == inp.ensure_fails \/ inp.write_fails \/ inp.transform = "raises"

\* the call left the files as they were
NothingWritten == fs = out.before

----------------------------------------------------------------------------
(* Video download *)

VideoDone == out.kind = "video" /\ out.pc = "done"

\* C21: when the expected file is already there and force is not set,
\* download_video_with_audio downloads nothing and returns the path of the
\* file; when the download fails, the file being absent afterwards, it
\* returns None.
C21_ExistingOrNone ==
    VideoDone =>
        /\ (inp.file.exists /\ ~inp.force) =>
               (out.n_download = 0 /\ out.returned = ReturnsPath(ExpectedPath))
        /\ (out.n_download > 0 /\ ~out.file.exists) => out.returned = ReturnsNone

\* the three statuses of the monitor, each with the condition it stands for
AlreadyExistsExact ==
    (out.returned.status = "already_exists") <=> (inp.file.exists /\ out.n_download = 0)
DownloadedExact ==
    (out.returned.status = "downloaded") <=> (out.n_download > 0 /\ out.wrote)
FailedExact ==
    (out.returned.status = "failed")
        <=> (out.result_path.type = "None" \/ ~out.file.exists \/ out.raised)

\* C22: the status is already_exists exactly when the file was there before
\* the call and nothing was downloaded, downloaded exactly when the call
\* downloaded the file, and failed exactly when there is no file at the
\* result path or the download function raised.
C22_StatusExact ==
    VideoDone => AlreadyExistsExact /\ DownloadedExact /\ FailedExact

----------------------------------------------------------------------------
(* Claims C23, C24, C29: UserContext *)

ContextsUsed == out.kind = "contexts"

\* the session directory of context i under one of the base directories
UnderSessionDirectory(i, path) ==
    /\ Len(path) = 4
    /\ path[1] \in {DefaultDownloadPath} \cup (BaseDirs \ {NoBaseDir})
    /\ path[2] = out.contexts[i].session_uuid

\* C23: two contexts with different session UUIDs never yield the same
\* download path, for any URLs, media types and base directories, and every
\* path a context yields lies under that context's own session directory.
C23_Isolated ==
    ContextsUsed =>
        /\ \A i, j \in ContextIds :
               out.contexts[i].session_uuid # out.contexts[j].session_uuid
                   => out.yielded[i] \cap out.yielded[j] = {}
        /\ \A i \in ContextIds : \A path \in out.yielded[i] :
               UnderSessionDirectory(i, path)

\* both users asked for the same media type of the same URL and were given
\* the same video UUID
C23_Witness ==
    /\ ContextsUsed
    /\ out.contexts[1].session_uuid # out.contexts[2].session_uuid
    /\ \E p \in out.yielded[1], q \in out.yielded[2] :
           p[1] = q[1] /\ p[3] = q[3] /\ p[4] = q[4]
    /\ out.asked[1] \cap out.asked[2] # {}

\* C24: within one context get_video_uuid(url) returns on every call the
\* value its first call for that URL returned, whatever the accessors of the
\* context were asked in between.
C24_SameUuid ==
    ContextsUsed =>
        /\ \A i \in ContextIds : \A u \in out.asked[i] :
               /\ HasVideo(out.contexts[i].video_sessions, u)
               /\ VideoUuidOf(out.contexts[i].video_sessions, u) = out.first_uuid[i][u]
        /\ inp.call.accessor \in {"get_video_uuid", "get_video_info"}
               => out.returned.video_uuid = out.first_uuid[inp.call.ctx][inp.call.video_url]

\* get_video_uuid is called again for the first URL after another URL was
\* asked for in between
C24_Witness ==
    /\ ContextsUsed
    /\ inp.call.accessor = "get_video_uuid"
    /\ LET sessions == out.contexts[inp.call.ctx].video_sessions
       IN  /\ Len(sessions) = 2
           /\ sessions[1].video_url = inp.call.video_url
           /\ sessions[1].video_uuid # sessions[2].video_uuid
    /\ out.n_calls = 3

\* a map is kept by a step: every entry stays where it was, with its value
Grown(before, after) ==
    /\ Len(before) <= Len(after)
    /\ \A k \in 1..Len(before) : after[k] = before[k]

\* C29: no call removes or changes an entry of the URL-to-UUID map of a
\* context, and the total_videos that get_session_info reports is the number
\* of distinct URLs the accessors of that context were ever given.
C29_OnlyGrows ==
    [][ContextsUsed =>
          /\ \A i \in ContextIds :
                 Grown(out.contexts[i].video_sessions, out'.contexts[i].video_sessions)
          /\ inp'.call.accessor = "get_session_info"
                 => out'.returned.total_videos = Cardinality(out'.asked[inp'.call.ctx])]_vars

\* get_session_info reports two videos, asked for through different accessors
C29_Witness ==
    /\ ContextsUsed
    /\ inp.call.accessor = "get_session_info"
    /\ out.returned.total_videos = 2
    /\ out.yielded[inp.call.ctx] # {}

----------------------------------------------------------------------------
(* Claims C25, C26, C27: the selector over the rows of list_transcript_metadata *)

\* the rows carry the is_default flags list_transcript_metadata computes
FromListing ==
    \A i \in 1..Len(rows) :
        rows[i].is_default <=>
            (~rows[i].is_generated
             \/ rows[i].language_code \in {"en", "en-US", "en-GB"})

\* C25: with the rows of list_transcript_metadata, at least one manual track
\* and no language preference, the selected track is a manual one, wherever
\* an auto-generated English track stands in the listing.
C25_ManualPreferred ==
    (Called /\ FromListing /\ SomeManual /\ LookedFor = NoLang) =>
        (Selected \in 1..Len(rows) /\ ~rows[Selected].is_generated)

\* the last track of the listing that is manual or auto-generated English
LastManualOrEnglish ==
    CHOOSE i \in 1..Len(rows) :
        /\ ~rows[i].is_generated \/ rows[i].language_code \in {"en", "en-US", "en-GB"}
        /\ \A j \in (i + 1)..Len(rows) :
               rows[j].is_generated /\ rows[j].language_code \notin {"en", "en-US", "en-GB"}

\* C26: with the rows of list_transcript_metadata and a preferred language
\* that names a track of the listing, the track of that language is selected
\* when the listing has no manual track and no auto-generated English track;
\* otherwise the preference is ignored and the last manual or auto-generated
\* English track is selected, as it is without a preference.
C26_PreferenceIgnored ==
    (Called /\ FromListing /\ LookedFor # NoLang /\ Matches(LookedFor)) =>
        /\ Selected \in 1..Len(rows)
        /\ IF SomeManual \/ SomeEnglishAuto
           THEN Selected = LastManualOrEnglish
           ELSE rows[Selected].language_code = LookedFor

\* the argument names an auto-generated track of the listing and a manual
\* track of another language is selected
C26_Witness ==
    /\ Called /\ FromListing
    /\ preferred_language # NoLang /\ LookedFor = preferred_language
    /\ \E i \in 1..Len(rows) :
           rows[i].language_code = preferred_language /\ rows[i].is_generated
    /\ Selected \in 1..Len(rows)
    /\ ~rows[Selected].is_generated
    /\ rows[Selected].language_code # preferred_language

\* C27: for a non-empty list of tracks the selector returns a track, never
\* None, and the track is one of the list, which the call leaves as it was.
C27_NeverNone ==
    (Called /\ rows # <<>>) => Selected \in 1..Len(rows)

\* the last fallback: only auto-generated tracks, none English, none flagged,
\* none in the language looked for
C27_Witness ==
    /\ Called /\ rows # <<>>
    /\ AllAuto /\ ~SomeEnglishAuto /\ ~SomeDefault
    /\ ~Matches(LookedFor)
    /\ Selected = 1

----------------------------------------------------------------------------
(* Claim C28: the files of RefactoredTranscriptDownloader.download_transcript *)

\* the names of the files on disk; the call starts with none
FilesWritten == {f.name : f \in fs}

\* the files that file_paths of the result names
FilesNamed == {RfFileName(RfOutputPath, format_name) : format_name \in rf.file_paths}

\* C28: when download_transcript has returned, file_paths of the result names
\* exactly the files the call wrote through the file manager, and a result
\* with success = False leaves no file written by the call.
C28_ExactFiles ==
    rf.pc = "returned" =>
        /\ FilesNamed = FilesWritten
        /\ ~rf.success => FilesWritten = {}

----------------------------------------------------------------------------
(* Claim C30: the two CLIs *)

BothRun == out.kind = "cli" /\ out.refactored # NotRun /\ out.original # NotRun

\* C30: for every combination of the metadata, preview and list_languages
\* flags RefactoredTranscriptCLI.run and TranscriptCLIController.run each run
\* exactly one handler, and the same one: metadata, preview, language listing
\* or, with no flag set, download.
C30_SameDispatch ==
    BothRun =>
        /\ Len(out.refactored.handlers) = 1
        /\ Len(out.original.handlers) = 1
        /\ out.refactored.handlers[1].handler = out.original.handlers[1].handler
        /\ (~inp.metadata /\ ~inp.preview /\ ~inp.list_languages)
               <=> out.original.handlers[1].handler = "download"

====
